---- MODULE Spec2Model ----
(***************************************************************************)
(* Live sample dashboard of inspect_ai: the Active Sample Registry         *)
(* (log/_samples.py), the Sample List View (widgets/samples.py), the       *)
(* Transcript View and the Event Renderer (widgets/transcript.py), the     *)
(* Progress Tracker (core/progress.py, widgets/tasks.py) and the task app  *)
(* (textual/app.py, textual/display.py).                                   *)
(*                                                                         *)
(* Optional values (Python None) are sequences of length at most one:      *)
(* <<>> is None and <<v>> is the value v.                                  *)
(***************************************************************************)
EXTENDS Integers, Sequences, FiniteSets, TLC

(* ------------------------------ bounds -------------------------------- *)
NumSamples == 2
MaxTime == 2
\* events appended to all transcripts together
MaxEvents == 3
\* rows of the terminal the TranscriptView shows at once
ViewRows == 2
\* largest step count `total` a Progress object is created with
MaxTotal == 3
\* calls of update and complete a Progress object receives
MaxCalls == 4
\* largest n of an update(n) call
MaxAdvance == 2
\* calls of render_event
MaxRenders == 2
\* texts printed while the app runs
MaxOutput == 2

Samples == 1..NumSamples

\* call slots of TranscriptView.sync_sample: at most two calls are in flight
SyncIds == {1, 2}

VARIABLES
    now,          \* the reading of time.monotonic()
    pc,           \* per sample: position of its owning task
    started,      \* ActiveSample.started   (optional: <<>> before __init__)
    completed,    \* ActiveSample.completed (optional)
    registry,     \* the module-level list _active_samples
    raised,       \* what the guarded work of the sample's scope raised
    outcome,      \* what the caller of the scope observed when it closed
    returned,     \* the object a caller got from active_samples() (optional)
    atCall,       \* contents of that object at the time of the call
    transcript,   \* per sample: ActiveSample.transcript.events
    tv_sample,    \* TranscriptView._sample (optional)
    tv_events,    \* TranscriptView._events
    children,     \* the widgets mounted in the TranscriptView, top to bottom
    scroll_y,     \* TranscriptView.scroll_y
    last_scroll,  \* the last scroll_end call the view made: "none", "animate", "jump"
    sync,         \* per call slot: a sync_sample call, its position and its locals
    sv_samples,   \* SamplesView.samples
    options,      \* ids of the options of the OptionList, top to bottom
    highlighted,  \* OptionList.highlighted (optional index, counted from 1)
    refreshed,    \* flips at every call of SamplesView.set_samples
    prev_focus,   \* the sample focused before the last UserRefocus (optional)
    pg_impl,      \* the class of the Progress object in use
    pg_total,     \* the `total` the Progress object was created with
    pg_value,     \* the value the bar has been given: Task.completed or ProgressBar.progress
    pg_log,       \* the calls the Progress object has received, oldest first
    subject,      \* the event handed to render_event
    rendered,     \* the calls of render_event so far: event, renderer and result of each
    app_pc,       \* where run_task_app stands: "init", "running", "exited", "done"
    worker,       \* Worker.state of the worker of main ("none" before run_worker)
    worker_result, \* Worker.result
    worker_error, \* Worker.error
    app_error,    \* TaskScreenApp._error
    return_value, \* App.return_value
    app_output,   \* TaskScreenApp._output
    ran           \* how run_task_app ended: [kind, value, output]

regVars == <<now, pc, started, completed, registry, raised, outcome>>
listVars == <<returned, atCall>>
tvVars == <<transcript, tv_sample, tv_events, children, scroll_y, last_scroll, sync>>
svVars == <<sv_samples, options, highlighted, refreshed, prev_focus>>
pgVars == <<pg_impl, pg_total, pg_value, pg_log>>
rdVars == <<subject, rendered>>
apVars == <<app_pc, worker, worker_result, worker_error, app_error, return_value,
            app_output, ran>>

vars == <<regVars, listVars, tvVars, svVars, pgVars, rdVars, apVars>>

(* ------------------------- sequence helpers --------------------------- *)
Range(seq) == {seq[i] : i \in 1..Len(seq)}

Contains(seq, x) == \E i \in 1..Len(seq) : seq[i] = x

\* index of the first occurrence of x in seq; 0 when absent
IndexOf(seq, x) ==
    IF Contains(seq, x)
    THEN CHOOSE i \in 1..Len(seq) : seq[i] = x /\ \A j \in 1..(i - 1) : seq[j] # x
    ELSE 0

RemoveAt(seq, i) == SubSeq(seq, 1, i - 1) \o SubSeq(seq, i + 1, Len(seq))

(* --------------------------- log/_samples.py -------------------------- *)
\* Python truthiness of an optional float: None and 0.0 are both falsy
Truthy(opt) == opt # <<>> /\ opt[1] # 0

\* ActiveSample.execution_time: (self.completed or monotonic()) - self.started
execution_time(s) ==
    (IF Truthy(completed[s]) THEN completed[s][1] ELSE now) - started[s][1]

\* the list object named _active_samples; active_samples() returns this very object
RegistryObject == "_active_samples"

active_samples == RegistryObject

\* contents of a list object as seen through a reference to it
Contents(ref) == IF ref = RegistryObject THEN registry ELSE <<>>

\* time.monotonic() advances. Its reference point is undefined (only differences
\* of readings mean anything), so the readings start at 0.
Tick ==
    /\ now < MaxTime
    /\ now' = now + 1
    /\ UNCHANGED <<pc, started, completed, registry, raised, outcome>>
    /\ UNCHANGED <<listVars, tvVars, svVars, pgVars, rdVars, apVars>>

\* ActiveSample.__init__: started = monotonic(), completed = None
NewActiveSample(s) ==
    /\ pc[s] = "new"
    /\ pc' = [pc EXCEPT ![s] = "created"]
    /\ started' = [started EXCEPT ![s] = <<now>>]
    /\ completed' = [completed EXCEPT ![s] = <<>>]
    /\ UNCHANGED <<now, registry, raised, outcome>>
    /\ UNCHANGED <<listVars, tvVars, svVars, pgVars, rdVars, apVars>>

\* active_sample, entry: _active_samples.append(sample), then the guarded work runs
EnterActiveSample(s) ==
    /\ pc[s] = "created"
    /\ pc' = [pc EXCEPT ![s] = "active"]
    /\ registry' = Append(registry, s)
    /\ UNCHANGED <<now, started, completed, raised, outcome>>
    /\ UNCHANGED <<listVars, tvVars, svVars, pgVars, rdVars, apVars>>

\* mutant: the removal is forgotten
ListRemove_Forgotten(seq, x) == seq

\* list.remove(x): removes the first occurrence, ValueError when absent
ListRemove(seq, x) == IF Contains(seq, x) THEN RemoveAt(seq, IndexOf(seq, x)) ELSE seq

\* mutant: the scope suspends between the stamp and the removal
ExitActiveSample_StampThenYield(s, err) ==
    /\ pc[s] = "active"
    /\ completed[s] = <<>>
    /\ completed' = [completed EXCEPT ![s] = <<now>>]
    /\ UNCHANGED <<now, pc, started, registry, raised, outcome>>
    /\ UNCHANGED <<listVars, tvVars, svVars, pgVars, rdVars, apVars>>

\* mutant: the cleanup is an `except Exception` handler, which a cancellation skips
ExitActiveSample_SkipOnCancel(s, err) ==
    /\ pc[s] = "active"
    /\ pc' = [pc EXCEPT ![s] = "done"]
    /\ raised' = [raised EXCEPT ![s] = err]
    /\ completed' = [completed EXCEPT ![s] = IF err = "Cancelled" THEN <<>> ELSE <<now>>]
    /\ registry' = IF err = "Cancelled" THEN registry
                   ELSE IF Contains(registry, s) THEN RemoveAt(registry, IndexOf(registry, s))
                   ELSE registry
    /\ outcome' = [outcome EXCEPT ![s] =
                      IF err = "Cancelled" \/ Contains(registry, s) THEN err ELSE "ValueError"]
    /\ UNCHANGED <<now, started>>
    /\ UNCHANGED <<listVars, tvVars, svVars, pgVars, rdVars, apVars>>

\* active_sample, the finally block: the guarded work ended with `err`
\* ("none", "WorkError" or "Cancelled"); completed = monotonic(), then
\* _active_samples.remove(sample). There is no await between the two
\* statements. A ValueError raised by remove replaces the error in flight.
ExitActiveSample(s, err) ==
    /\ pc[s] = "active"
    /\ pc' = [pc EXCEPT ![s] = "done"]
    /\ raised' = [raised EXCEPT ![s] = err]
    /\ completed' = [completed EXCEPT ![s] = <<now>>]
    /\ registry' = ListRemove(registry, s)
    /\ outcome' = [outcome EXCEPT ![s] =
                      IF Contains(registry, s) THEN err ELSE "ValueError"]
    /\ UNCHANGED <<now, started>>
    /\ UNCHANGED <<listVars, tvVars, svVars, pgVars, rdVars, apVars>>

\* init_active_samples: _active_samples.clear()
init_active_samples ==
    /\ registry' = <<>>
    /\ UNCHANGED <<now, pc, started, completed, raised, outcome>>
    /\ UNCHANGED <<listVars, tvVars, svVars, pgVars, rdVars, apVars>>

\* a reader calls active_samples() and keeps the result
CallActiveSamples ==
    /\ returned' = <<active_samples>>
    /\ atCall' = Contents(active_samples)
    /\ UNCHANGED <<regVars, tvVars, svVars, pgVars, rdVars, apVars>>

(* -------------------- widgets/transcript.py: rendering ---------------- *)
\* A text is a sequence of string tokens, <<>> the empty string. A renderable
\* is [type, text]: a str, or a rich object (Text, Rule, ...) holding text.
Renderable(type, text) == [type |-> type, text |-> text]

\* EventDisplay(title, content=None); content is optional
EventDisplay(title, content) == [title |-> title, content |-> content]

\* An event: kind is its class, uid makes it a distinct object; type is the step
\* type, name the optional name (of the step, model, subtask or logger), level the
\* logging level and text the payload (message, traceback, input, data)
Event(kind, uid, type, name, level, text) ==
    [kind |-> kind, uid |-> uid, type |-> type, name |-> name, level |-> level,
     text |-> text]

\* the events the engine appends to the transcripts shown in the TranscriptView
LoggerEvent(uid) == Event("LoggerEvent", uid, "", <<"">>, "info", <<uid>>)
StepEvent(uid) == Event("StepEvent", uid, "solver", <<"generate">>, "", <<>>)
\* a kind of the Event union that has no entry in _renderers
StateEvent(uid) == Event("StateEvent", uid, "", <<>>, "", <<>>)

EventPool(uid) == {LoggerEvent(uid), StepEvent(uid), StateEvent(uid)}

\* str.upper() on the level names
Upper(level) ==
    CASE level = "info" -> "INFO"
      [] level = "warning" -> "WARNING"
      [] OTHER -> level

Whitespace == {" ", "\n"}

\* str.strip(): leading and trailing whitespace removed
RECURSIVE Strip(_)
Strip(text) ==
    IF text = <<>> THEN <<>>
    ELSE IF Head(text) \in Whitespace THEN Strip(Tail(text))
    ELSE IF text[Len(text)] \in Whitespace THEN Strip(SubSeq(text, 1, Len(text) - 1))
    ELSE text

\* step_title: f"{event.type or 'step'}: {event.name}"
step_title(event) ==
    <<IF event.type # "" THEN event.type ELSE "step", ": ", event.name[1]>>

\* render_step_event and render_solver_event, render_scorer_event: a title, no content
render_step_event(event) == EventDisplay(step_title(event), <<>>)

\* render_sample_init_event: the messages and the target in a Group
render_sample_init_event(event) ==
    EventDisplay(<<"sample init">>, <<Renderable("Group", event.text)>>)

\* render_model_event
render_model_event(event) ==
    EventDisplay(<<"model: ", event.name[1]>>, <<Renderable("Group", event.text)>>)

\* render_tool_event
render_tool_event(event) ==
    EventDisplay(<<"tool call">>, <<Renderable("Group", event.text)>>)

\* render_subtask_event
render_subtask_event(event) ==
    EventDisplay(<<"subtask: ", event.name[1]>>, <<Renderable("Group", event.text)>>)

\* render_score_event
render_score_event(event) ==
    EventDisplay(<<"score">>, <<Renderable("Table", event.text)>>)

\* render_input_event: Text.from_ansi(event.input_ansi.strip())
render_input_event(event) ==
    EventDisplay(<<"input">>, <<Renderable("Text", Strip(event.text))>>)

\* render_approval_event
render_approval_event(event) ==
    EventDisplay(<<"approval">>, <<Renderable("Group", event.text)>>)

\* render_info_event: markdown of the data or of its JSON
render_info_event(event) ==
    EventDisplay(<<"info">>, <<Renderable("Markdown", event.text)>>)

\* mutant: the renderer numbers its outputs
render_logger_event_Numbered(event) ==
    EventDisplay(<<"logger">>,
        <<Renderable("str", <<ToString(Len(rendered)), ": ">> \o event.text)>>)

\* mutant: the level is printed as it is stored
render_logger_event_RawLevel(event) ==
    EventDisplay(<<"logger">>,
        <<Renderable("str",
            <<event.level>>
            \o (IF event.name # <<>> /\ event.name[1] # ""
                THEN <<" ($", event.name[1], ")">> ELSE <<>>)
            \o <<": ">> \o event.text)>>)

\* render_logger_event: level.upper(), then f"{content} (${name})" when the name is
\* neither None nor empty, then f"{content}: {message}"
render_logger_event(event) ==
    EventDisplay(<<"logger">>,
        <<Renderable("str",
            <<Upper(event.level)>>
            \o (IF event.name # <<>> /\ event.name[1] # ""
                THEN <<" ($", event.name[1], ")">> ELSE <<>>)
            \o <<": ">> \o event.text)>>)

\* render_error_event: event.error.traceback.strip()
render_error_event(event) ==
    EventDisplay(<<"error">>, <<Renderable("str", Strip(event.text))>>)

\* mutant: the entry of ErrorEvent is missing
_renderers_NoError ==
    << <<"SampleInitEvent", "render_sample_init_event">>,
       <<"StepEvent", "render_step_event">>,
       <<"ModelEvent", "render_model_event">>,
       <<"ToolEvent", "render_tool_event">>,
       <<"SubtaskEvent", "render_subtask_event">>,
       <<"ScoreEvent", "render_score_event">>,
       <<"InputEvent", "render_input_event">>,
       <<"ApprovalEvent", "render_approval_event">>,
       <<"InfoEvent", "render_info_event">>,
       <<"LoggerEvent", "render_logger_event">> >>

\* _renderers: the event types and their renderers, in order
_renderers ==
    << <<"SampleInitEvent", "render_sample_init_event">>,
       <<"StepEvent", "render_step_event">>,
       <<"ModelEvent", "render_model_event">>,
       <<"ToolEvent", "render_tool_event">>,
       <<"SubtaskEvent", "render_subtask_event">>,
       <<"ScoreEvent", "render_score_event">>,
       <<"InputEvent", "render_input_event">>,
       <<"ApprovalEvent", "render_approval_event">>,
       <<"InfoEvent", "render_info_event">>,
       <<"LoggerEvent", "render_logger_event">>,
       <<"ErrorEvent", "render_error_event">> >>

\* the call renderer(event) of render_event
CallRenderer(renderer, event) ==
    CASE renderer = "render_sample_init_event" -> render_sample_init_event(event)
      [] renderer = "render_step_event" -> render_step_event(event)
      [] renderer = "render_model_event" -> render_model_event(event)
      [] renderer = "render_tool_event" -> render_tool_event(event)
      [] renderer = "render_subtask_event" -> render_subtask_event(event)
      [] renderer = "render_score_event" -> render_score_event(event)
      [] renderer = "render_input_event" -> render_input_event(event)
      [] renderer = "render_approval_event" -> render_approval_event(event)
      [] renderer = "render_info_event" -> render_info_event(event)
      [] renderer = "render_logger_event" -> render_logger_event(event)
      [] renderer = "render_error_event" -> render_error_event(event)

\* the loop of render_event: the renderer of the first entry of _renderers whose
\* type the event is an instance of; "" when there is none
RendererFor(event) ==
    LET matches == {i \in 1..Len(_renderers) : _renderers[i][1] = event.kind}
    IN  IF matches = {} THEN ""
        ELSE _renderers[CHOOSE i \in matches : \A j \in matches : i <= j][2]

\* render_event: the display of that renderer (an EventDisplay is a non-empty
\* tuple, so `if display:` holds); None (<<>>) when there is no renderer
render_event(event) ==
    IF RendererFor(event) = "" THEN <<>>
    ELSE <<CallRenderer(RendererFor(event), event)>>

\* truthiness of `display.content`: None is falsy, so is an empty str or Text
ContentTruthy(content) ==
    /\ content # <<>>
    /\ content[1].type \in {"str", "Text"} => content[1].text # <<>>

\* `if display and display.content:` of _widgets_for_events
ShowsDisplay(display) == display # <<>> /\ ContentTruthy(display[1].content)

\* the three widgets _widgets_for_events appends for one displayed event:
\* transcript_separator(display.title), display.content, Text(" ")
WidgetsOf(display) ==
    <<Renderable("Rule", display.title), display.content[1], Renderable("Text", <<" ">>)>>

\* TranscriptView._widgets_for_events
RECURSIVE _widgets_for_events(_)
_widgets_for_events(events) ==
    IF events = <<>> THEN <<>>
    ELSE (IF ShowsDisplay(render_event(Head(events)))
          THEN WidgetsOf(render_event(Head(events))[1])
          ELSE <<>>)
         \o _widgets_for_events(Tail(events))

(* ----------------- widgets/transcript.py: TranscriptView -------------- *)
\* a call slot with no sync_sample call in it
NoSync == [pc |-> "idle", sample |-> <<>>, append_events |-> <<>>,
           scrolled_to_bottom |-> FALSE]

\* number of events in the transcripts of samples 1..n
RECURSIVE EventCount(_)
EventCount(n) == IF n = 0 THEN 0 ELSE Len(transcript[n]) + EventCount(n - 1)

\* every mounted Static is one row high
ContentRows(widgets) == Len(widgets)

\* Widget.max_scroll_y of a container showing `widgets`
MaxScrollY(widgets) ==
    IF ContentRows(widgets) > ViewRows THEN ContentRows(widgets) - ViewRows ELSE 0

max_scroll_y == MaxScrollY(children)

Abs(x) == IF x < 0 THEN 0 - x ELSE x

ScrollTolerance == 3

\* mutant: only the very bottom counts
scrolled_to_bottom_Exact(y, max) == y = max

\* abs(self.scroll_y - self.max_scroll_y) <= 3
scrolled_to_bottom(y, max) == Abs(y - max) <= ScrollTolerance

\* mutant: the slice starts at the beginning
SliceFrom_Start(events, n) == events

\* events[n:]
SliceFrom(events, n) == SubSeq(events, n + 1, Len(events))

\* the condition of the `if` of sync_sample: the same sample stays focused
SameSample(arg) == arg # <<>> /\ tv_sample # <<>> /\ arg[1] = tv_sample[1]

\* the lowest idle call slot
FreeSlot(i) == sync[i].pc = "idle" /\ \A j \in SyncIds : j < i => sync[j].pc # "idle"

\* the engine appends an event to the transcript of a running sample
AppendEvent(s) ==
    /\ pc[s] = "active"
    /\ EventCount(NumSamples) < MaxEvents
    /\ \E e \in EventPool(ToString(<<s, Len(transcript[s]) + 1>>)) :
           transcript' = [transcript EXCEPT ![s] = Append(@, e)]
    /\ UNCHANGED <<tv_sample, tv_events, children, scroll_y, last_scroll, sync>>
    /\ UNCHANGED <<regVars, listVars, svVars, pgVars, rdVars, apVars>>

\* where the user scrolls to: the top, the bottom, and the two offsets on either
\* side of the tolerance of scrolled_to_bottom
ScrollTargets ==
    {0, max_scroll_y, max_scroll_y - ScrollTolerance, max_scroll_y - ScrollTolerance - 1}
        \cap (0..max_scroll_y)

\* the user scrolls the TranscriptView
UserScroll ==
    /\ \E y \in ScrollTargets : y # scroll_y /\ scroll_y' = y
    /\ UNCHANGED <<transcript, tv_sample, tv_events, children, last_scroll, sync>>
    /\ UNCHANGED <<regVars, listVars, svVars, pgVars, rdVars, apVars>>

\* sync_sample, the `update existing` branch up to `await self.mount_all(...)`:
\* mount_all adds the widgets to the view at once, the await waits for them
SyncUpdate(i, s) ==
    /\ FreeSlot(i)
    /\ pc[s] # "new"
    /\ SameSample(<<s>>)
    /\ LET append_events == SliceFrom(transcript[s], Len(tv_events)) IN
        /\ sync' = [sync EXCEPT ![i] =
                      [pc |-> "mount_update", sample |-> <<s>>,
                       append_events |-> append_events,
                       scrolled_to_bottom |-> scrolled_to_bottom(scroll_y, max_scroll_y)]]
        /\ tv_events' = tv_events \o append_events
        /\ children' = children \o _widgets_for_events(append_events)
    /\ UNCHANGED <<transcript, tv_sample, scroll_y, last_scroll>>
    /\ UNCHANGED <<regVars, listVars, svVars, pgVars, rdVars, apVars>>

\* sync_sample, the `update existing` branch after the await:
\* `if scrolled_to_bottom: self.scroll_end()`
SyncUpdateDone(i) ==
    /\ sync[i].pc = "mount_update"
    /\ sync' = [sync EXCEPT ![i] = NoSync]
    /\ IF sync[i].scrolled_to_bottom
       THEN scroll_y' = max_scroll_y /\ last_scroll' = "animate"
       ELSE UNCHANGED <<scroll_y, last_scroll>>
    /\ UNCHANGED <<transcript, tv_sample, tv_events, children>>
    /\ UNCHANGED <<regVars, listVars, svVars, pgVars, rdVars, apVars>>

\* mutant: the old widgets are not removed
SyncNew_KeepChildren(i, arg) ==
    /\ FreeSlot(i)
    /\ arg # <<>> => pc[arg[1]] # "new"
    /\ ~SameSample(arg)
    /\ sync' = [sync EXCEPT ![i] =
                  [pc |-> "remove", sample |-> arg, append_events |-> <<>>,
                   scrolled_to_bottom |-> FALSE]]
    /\ tv_sample' = arg
    /\ UNCHANGED <<transcript, tv_events, children, scroll_y, last_scroll>>
    /\ UNCHANGED <<regVars, listVars, svVars, pgVars, rdVars, apVars>>

\* sync_sample, the `new sample` branch up to `await self.remove_children()`:
\* remove_children detaches the widgets at once, the await waits for their pruning;
\* the toolkit keeps scroll_y within 0..max_scroll_y
SyncNew(i, arg) ==
    /\ FreeSlot(i)
    /\ arg # <<>> => pc[arg[1]] # "new"
    /\ ~SameSample(arg)
    /\ sync' = [sync EXCEPT ![i] =
                  [pc |-> "remove", sample |-> arg, append_events |-> <<>>,
                   scrolled_to_bottom |-> FALSE]]
    /\ tv_sample' = arg
    /\ children' = <<>>
    /\ scroll_y' = 0
    /\ UNCHANGED <<transcript, tv_events, last_scroll>>
    /\ UNCHANGED <<regVars, listVars, svVars, pgVars, rdVars, apVars>>

\* sync_sample, the `new sample` branch after remove_children up to
\* `await self.mount_all(...)`, or to its end when sample is None
SyncNewMount(i) ==
    /\ sync[i].pc = "remove"
    /\ IF sync[i].sample # <<>>
       THEN /\ tv_events' = transcript[sync[i].sample[1]]
            /\ children' = children \o _widgets_for_events(transcript[sync[i].sample[1]])
            /\ sync' = [sync EXCEPT ![i].pc = "mount_new"]
       ELSE /\ tv_events' = <<>>
            /\ children' = children
            /\ sync' = [sync EXCEPT ![i] = NoSync]
    /\ UNCHANGED <<transcript, tv_sample, scroll_y, last_scroll>>
    /\ UNCHANGED <<regVars, listVars, svVars, pgVars, rdVars, apVars>>

\* sync_sample, the `new sample` branch after the await: self.scroll_end(animate=False)
SyncNewDone(i) ==
    /\ sync[i].pc = "mount_new"
    /\ sync' = [sync EXCEPT ![i] = NoSync]
    /\ scroll_y' = max_scroll_y
    /\ last_scroll' = "jump"
    /\ UNCHANGED <<transcript, tv_sample, tv_events, children>>
    /\ UNCHANGED <<regVars, listVars, svVars, pgVars, rdVars, apVars>>

(* ------------------ widgets/samples.py: SamplesView ------------------- *)
\* Indexes count from 1; where Python returns -1 for "not found" this is 0.

\* sample_index_for_id; a sample's id is the sample itself (uuid() is unique)
sample_index_for_id(samples, id) == IndexOf(samples, id)

\* sample_for_id (optional)
sample_for_id(samples, id) ==
    IF sample_index_for_id(samples, id) # 0
    THEN <<samples[sample_index_for_id(samples, id)]>>
    ELSE <<>>

\* mutant: the highlighted sample is not added back
WithHighlighted_Dropped(samples, highlighted_sample) == samples

\* mutant: every sample of the old list that left the snapshot is added back
WithHighlighted_KeepAll(samples, highlighted_sample) ==
    samples \o SelectSeq(sv_samples, LAMBDA s : ~Contains(samples, s))

\* `if highlighted_sample and (highlighted_sample not in self.samples): append`
WithHighlighted(samples, highlighted_sample) ==
    IF highlighted_sample # <<>> /\ ~Contains(samples, highlighted_sample[1])
    THEN Append(samples, highlighted_sample[1])
    ELSE samples

\* x put into a sequence sorted by descending key, behind the elements whose key
\* is not smaller: equal keys keep their order, as list.sort(reverse=True) does
RECURSIVE InsertDesc(_, _)
InsertDesc(sorted, x) ==
    IF sorted = <<>> THEN <<x>>
    ELSE IF execution_time(Head(sorted)) >= execution_time(x)
         THEN <<Head(sorted)>> \o InsertDesc(Tail(sorted), x)
         ELSE <<x>> \o sorted

\* self.samples.sort(key=lambda sample: sample.execution_time, reverse=True)
RECURSIVE SortByExecutionTime(_)
SortByExecutionTime(samples) ==
    IF samples = <<>> THEN <<>>
    ELSE InsertDesc(SortByExecutionTime(SubSeq(samples, 1, Len(samples) - 1)),
                    samples[Len(samples)])

\* mutant: without a focus to keep, the last entry is selected
SelectIndex_Last(samples, highlighted_id) ==
    IF Len(samples) > 0
    THEN IF highlighted_id # <<>>
         THEN <<sample_index_for_id(samples, highlighted_id[1])>>
         ELSE <<Len(samples)>>
    ELSE <<>>

\* mutant: the top entry is selected whatever was focused
SelectIndex_Top(samples, highlighted_id) ==
    IF Len(samples) > 0 THEN <<1>> ELSE <<>>

\* set_samples, `# select sample`: the index given to option_list.highlighted;
\* clear_options has left it None, and so it stays for an empty list
SelectIndex(samples, highlighted_id) ==
    IF Len(samples) > 0
    THEN IF highlighted_id # <<>>
         THEN <<sample_index_for_id(samples, highlighted_id[1])>>
         ELSE <<1>>
    ELSE <<>>

\* what set_samples(samples) makes of a view whose list is old_samples, whose
\* options are opts and whose highlight is hl: self.samples and the highlight
SetSamplesResult(old_samples, opts, hl, samples) ==
    LET highlighted_id == IF hl # <<>> THEN <<opts[hl[1]]>> ELSE <<>>
        highlighted_sample ==
            IF highlighted_id # <<>> THEN sample_for_id(old_samples, highlighted_id[1])
            ELSE <<>>
        sorted == SortByExecutionTime(WithHighlighted(samples, highlighted_sample))
    IN  [samples |-> sorted, highlighted |-> SelectIndex(sorted, highlighted_id)]

\* SamplesView.set_samples(samples); the caller passes what active_samples() returns
set_samples(samples) ==
    LET result == SetSamplesResult(sv_samples, options, highlighted, samples)
    IN  /\ sv_samples' = result.samples
        /\ options' = result.samples
        /\ highlighted' = result.highlighted
        /\ refreshed' = ~refreshed
        /\ UNCHANGED prev_focus

\* a refresh tick of the display: set_samples(active_samples())
RefreshSamples ==
    /\ set_samples(Contents(active_samples))
    /\ UNCHANGED <<regVars, listVars, tvVars, pgVars, rdVars, apVars>>

\* the user moves the highlight of the OptionList
UserHighlight(i) ==
    /\ i \in 1..Len(options)
    /\ highlighted # <<i>>
    /\ highlighted' = <<i>>
    /\ UNCHANGED <<sv_samples, options, refreshed, prev_focus>>
    /\ UNCHANGED <<regVars, listVars, tvVars, pgVars, rdVars, apVars>>

\* the same move of the highlight, with the sample that was focused before it
\* kept in prev_focus
UserRefocus(i) ==
    /\ i \in 1..Len(options)
    /\ highlighted # <<i>>
    /\ highlighted' = <<i>>
    /\ prev_focus' = IF highlighted # <<>> THEN <<options[highlighted[1]]>> ELSE <<>>
    /\ UNCHANGED <<sv_samples, options, refreshed>>
    /\ UNCHANGED <<regVars, listVars, tvVars, pgVars, rdVars, apVars>>

(* ------- core/progress.py and widgets/tasks.py: Progress objects ------ *)
\* The numbers are exact: the rounding of the float arithmetic is left out.
\* For a RichProgress pg_value is the numerator of Task.completed over the
\* denominator pg_total (every advance is a multiple of 1/total); for a
\* TaskProgress it is ProgressBar.progress.

PROGRESS_TOTAL == 102

ProgressImpls == {"RichProgress", "TaskProgress"}

UpdateCall(n) == [op |-> "update", n |-> n]
CompleteCall == [op |-> "complete", n |-> 0]

\* the total of the bar, in the unit of pg_value: RichProgress registers its task
\* with total=PROGRESS_TOTAL, TaskProgressView makes ProgressBar(total=steps)
BarTotal(impl, total) == IF impl = "RichProgress" THEN PROGRESS_TOTAL * total ELSE total

\* a state in which no Progress object is observed
NoProgress ==
    /\ pg_impl = "RichProgress"
    /\ pg_total = 1
    /\ pg_value = 0
    /\ pg_log = <<>>

\* mutant: the advance is a share of the registered total
RichAdvance_OfTotal(n) == n * PROGRESS_TOTAL

\* RichProgress.update: advance = (float(n) / float(self.total)) * 100,
\* as a numerator over self.total
RichAdvance(n) == n * 100

\* RichProgress.update(n): progress.update(advance=advance) adds to Task.completed
RichProgress_update(n) ==
    /\ pg_impl = "RichProgress"
    /\ Len(pg_log) < MaxCalls
    /\ pg_value' = pg_value + RichAdvance(n)
    /\ pg_log' = Append(pg_log, UpdateCall(n))
    /\ UNCHANGED <<pg_impl, pg_total>>
    /\ UNCHANGED <<regVars, listVars, tvVars, svVars, rdVars, apVars>>

\* mutant: complete() fills the bar to 100
RichProgress_complete_Percent ==
    /\ pg_impl = "RichProgress"
    /\ Len(pg_log) < MaxCalls
    /\ pg_value' = 100 * pg_total
    /\ pg_log' = Append(pg_log, CompleteCall)
    /\ UNCHANGED <<pg_impl, pg_total>>
    /\ UNCHANGED <<regVars, listVars, tvVars, svVars, rdVars, apVars>>

\* RichProgress.complete: progress.update(completed=PROGRESS_TOTAL)
RichProgress_complete ==
    /\ pg_impl = "RichProgress"
    /\ Len(pg_log) < MaxCalls
    /\ pg_value' = PROGRESS_TOTAL * pg_total
    /\ pg_log' = Append(pg_log, CompleteCall)
    /\ UNCHANGED <<pg_impl, pg_total>>
    /\ UNCHANGED <<regVars, listVars, tvVars, svVars, rdVars, apVars>>

\* TaskProgress.update(n): self.progress_bar.update(advance=n)
TaskProgress_update(n) ==
    /\ pg_impl = "TaskProgress"
    /\ Len(pg_log) < MaxCalls
    /\ pg_value' = pg_value + n
    /\ pg_log' = Append(pg_log, UpdateCall(n))
    /\ UNCHANGED <<pg_impl, pg_total>>
    /\ UNCHANGED <<regVars, listVars, tvVars, svVars, rdVars, apVars>>

\* TaskProgress.complete: the bar was made with total=task.profile.steps, so
\* `self.progress_bar.total is not None` holds; progress_bar.update(progress=total)
TaskProgress_complete ==
    /\ pg_impl = "TaskProgress"
    /\ Len(pg_log) < MaxCalls
    /\ pg_value' = BarTotal(pg_impl, pg_total)
    /\ pg_log' = Append(pg_log, CompleteCall)
    /\ UNCHANGED <<pg_impl, pg_total>>
    /\ UNCHANGED <<regVars, listVars, tvVars, svVars, rdVars, apVars>>

(* --------- textual/app.py and textual/display.py: the task app -------- *)
\* Python values are named by strings: "None" is None.

\* what the main coroutine may return: None, an empty and a non-empty list of
\* logs, and an exception object handed back as a value
Results == {"None", "[]", "logs", "ValueError"}

\* what the main coroutine may raise
WorkerErrors == {"WorkError"}

\* isinstance(value, BaseException)
IsBaseException(value) ==
    value \in {"ValueError", "WorkError", "CancelledError", "RuntimeError"}

\* the texts the app captures from print
PrintTexts == {<<"line">>, <<"line", "\n">>, <<"\n">>}

FinalStates == {"SUCCESS", "ERROR", "CANCELLED"}

\* a state in which no app has been made
NoApp ==
    /\ app_pc = "init"
    /\ worker = "none"
    /\ worker_result = "None"
    /\ worker_error = "None"
    /\ app_error = "None"
    /\ return_value = "None"
    /\ app_output = <<>>
    /\ ran = [kind |-> "pending", value |-> "None", output |-> <<>>]

\* run_task_app makes the app; run_app makes the worker (start=False) and calls run()
run_app ==
    /\ app_pc = "init"
    /\ app_pc' = "running"
    /\ worker' = "PENDING"
    /\ UNCHANGED <<worker_result, worker_error, app_error, return_value, app_output, ran>>
    /\ UNCHANGED <<regVars, listVars, tvVars, svVars, pgVars, rdVars>>

\* on_mount: self.workers.start_all()
on_mount ==
    /\ app_pc = "running"
    /\ worker = "PENDING"
    /\ worker' = "RUNNING"
    /\ UNCHANGED <<app_pc, worker_result, worker_error, app_error, return_value,
                   app_output, ran>>
    /\ UNCHANGED <<regVars, listVars, tvVars, svVars, pgVars, rdVars>>

\* on_print: one trailing newline is cut off, the text is kept in _output
on_print(text) ==
    /\ app_pc = "running"
    /\ worker \in {"RUNNING"} \cup FinalStates
    /\ Len(app_output) < MaxOutput
    /\ app_output' = Append(app_output,
                            IF text # <<>> /\ text[Len(text)] = "\n"
                            THEN SubSeq(text, 1, Len(text) - 1) ELSE text)
    /\ UNCHANGED <<app_pc, worker, worker_result, worker_error, app_error,
                   return_value, ran>>
    /\ UNCHANGED <<regVars, listVars, tvVars, svVars, pgVars, rdVars>>

\* the main coroutine returns `result`
WorkerSucceeds(result) ==
    /\ worker = "RUNNING"
    /\ worker' = "SUCCESS"
    /\ worker_result' = result
    /\ UNCHANGED <<app_pc, worker_error, app_error, return_value, app_output, ran>>
    /\ UNCHANGED <<regVars, listVars, tvVars, svVars, pgVars, rdVars>>

\* the main coroutine raises `error`
WorkerFails(error) ==
    /\ worker = "RUNNING"
    /\ worker' = "ERROR"
    /\ worker_error' = error
    /\ UNCHANGED <<app_pc, worker_result, app_error, return_value, app_output, ran>>
    /\ UNCHANGED <<regVars, listVars, tvVars, svVars, pgVars, rdVars>>

\* action_quit: `if self._worker and self._worker.is_running: self._worker.cancel()`
action_quit ==
    /\ app_pc = "running"
    /\ worker = "RUNNING"
    /\ worker' = "CANCELLED"
    /\ UNCHANGED <<app_pc, worker_result, worker_error, app_error, return_value,
                   app_output, ran>>
    /\ UNCHANGED <<regVars, listVars, tvVars, svVars, pgVars, rdVars>>

\* on_worker_state_changed for a worker that has finished: ERROR keeps the
\* worker's error and exits with None, CANCELLED keeps a CancelledError and exits
\* with None, SUCCESS exits with the worker's result; exit(result) sets return_value
on_worker_state_changed ==
    /\ app_pc = "running"
    /\ worker \in FinalStates
    /\ app_pc' = "exited"
    /\ app_error' = CASE worker = "ERROR" -> worker_error
                      [] worker = "CANCELLED" -> "CancelledError"
                      [] OTHER -> app_error
    /\ return_value' = IF worker = "SUCCESS" THEN worker_result ELSE "None"
    /\ UNCHANGED <<worker, worker_result, worker_error, app_output, ran>>
    /\ UNCHANGED <<regVars, listVars, tvVars, svVars, pgVars, rdVars>>

\* run_app, `# determine result value`
ResultValue ==
    IF return_value # "None" THEN return_value
    ELSE IF app_error # "None" THEN app_error
    ELSE "RuntimeError"

\* run() has returned: run_app builds the TaskScreenResult, run_task_app prints the
\* output and raises result.value when it is a BaseException, else returns it
run_task_app ==
    /\ app_pc = "exited"
    /\ app_pc' = "done"
    /\ ran' = [kind |-> IF IsBaseException(ResultValue) THEN "raised" ELSE "returned",
               value |-> ResultValue,
               output |-> app_output]
    /\ UNCHANGED <<worker, worker_result, worker_error, app_error, return_value,
                   app_output>>
    /\ UNCHANGED <<regVars, listVars, tvVars, svVars, pgVars, rdVars>>

(* ------------- widgets/transcript.py: calls of render_event ----------- *)
\* the events handed to render_event: every kind of _renderers, with the payloads
\* the renderers branch on, and two kinds of the Event union without a renderer
RenderPool ==
    { Event("SampleInitEvent", "e", "", <<>>, "", <<"input">>),
      Event("StepEvent", "e", "solver", <<"generate">>, "", <<>>),
      Event("StepEvent", "e", "scorer", <<"match">>, "", <<>>),
      Event("StepEvent", "e", "", <<"init">>, "", <<>>),
      Event("ModelEvent", "e", "", <<"gpt">>, "", <<"answer">>),
      Event("ToolEvent", "e", "", <<>>, "", <<"call">>),
      Event("SubtaskEvent", "e", "", <<"plan">>, "", <<"call">>),
      Event("ScoreEvent", "e", "", <<>>, "", <<"C">>),
      Event("InputEvent", "e", "", <<>>, "", <<" ", "typed", "\n">>),
      Event("InputEvent", "e", "", <<>>, "", <<" ">>),
      Event("ApprovalEvent", "e", "", <<>>, "", <<"approve">>),
      Event("InfoEvent", "e", "", <<>>, "", <<"note">>),
      Event("LoggerEvent", "e", "", <<"">>, "info", <<"started">>),
      Event("LoggerEvent", "e", "", <<>>, "warning", <<"slow">>),
      Event("LoggerEvent", "e", "", <<"inspect">>, "info", <<"started">>),
      Event("ErrorEvent", "e", "", <<>>, "", <<"Traceback", "\n">>),
      Event("ErrorEvent", "e", "", <<>>, "", <<>>),
      Event("StateEvent", "e", "", <<>>, "", <<>>),
      Event("StoreEvent", "e", "", <<>>, "", <<>>) }

\* a state in which render_event has not been called
NoRender ==
    /\ subject = <<>>
    /\ rendered = <<>>

\* a caller holds an event it is about to render
HandEvent(e) ==
    /\ subject # <<e>>
    /\ subject' = <<e>>
    /\ UNCHANGED rendered
    /\ UNCHANGED <<regVars, listVars, tvVars, svVars, pgVars, apVars>>

\* a call render_event(event)
CallRenderEvent ==
    /\ subject # <<>>
    /\ Len(rendered) < MaxRenders
    /\ rendered' = Append(rendered, [event |-> subject[1],
                                      renderer |-> RendererFor(subject[1]),
                                      display |-> render_event(subject[1])])
    /\ UNCHANGED subject
    /\ UNCHANGED <<regVars, listVars, tvVars, svVars, pgVars, apVars>>

Errors == {"none", "WorkError", "Cancelled"}

\* nothing has run yet: no sample, no view content, no call of render_event
InitViews ==
    /\ now = 0
    /\ pc = [s \in Samples |-> "new"]
    /\ started = [s \in Samples |-> <<>>]
    /\ completed = [s \in Samples |-> <<>>]
    /\ registry = <<>>
    /\ raised = [s \in Samples |-> "none"]
    /\ outcome = [s \in Samples |-> "pending"]
    /\ returned = <<>>
    /\ atCall = <<>>
    /\ transcript = [s \in Samples |-> <<>>]
    /\ tv_sample = <<>>
    /\ tv_events = <<>>
    /\ children = <<>>
    /\ scroll_y = 0
    /\ last_scroll = "none"
    /\ sync = [i \in SyncIds |-> NoSync]
    /\ sv_samples = <<>>
    /\ options = <<>>
    /\ highlighted = <<>>
    /\ refreshed = FALSE
    /\ prev_focus = <<>>
    /\ NoRender
    /\ NoApp

Init ==
    /\ InitViews
    /\ NoProgress

\* the registry and its owning tasks
NextReg ==
    \/ Tick
    \/ \E s \in Samples : NewActiveSample(s)
    \/ \E s \in Samples : EnterActiveSample(s)
    \/ \E s \in Samples, err \in Errors : ExitActiveSample(s, err)
    \/ init_active_samples

SpecReg == Init /\ [][NextReg]_vars

\* The registry, its owning tasks and a reader that keeps what active_samples()
\* returned. What a reader sees does not depend on the clock, which stands still here.
NextList ==
    \/ \E s \in Samples : NewActiveSample(s)
    \/ \E s \in Samples : EnterActiveSample(s)
    \/ \E s \in Samples, err \in Errors : ExitActiveSample(s, err)
    \/ init_active_samples
    \/ CallActiveSamples

SpecList == Init /\ [][NextList]_vars

\* The Transcript View: every sample is running (constructed and entered at time
\* 0), the engine appends events, sync_sample calls arrive and the user scrolls.
InitTV ==
    /\ now = 0
    /\ pc = [s \in Samples |-> "active"]
    /\ started = [s \in Samples |-> <<0>>]
    /\ completed = [s \in Samples |-> <<>>]
    /\ registry = [i \in 1..NumSamples |-> i]
    /\ raised = [s \in Samples |-> "none"]
    /\ outcome = [s \in Samples |-> "pending"]
    /\ returned = <<>>
    /\ atCall = <<>>
    /\ transcript = [s \in Samples |-> <<>>]
    /\ tv_sample = <<>>
    /\ tv_events = <<>>
    /\ children = <<>>
    /\ scroll_y = 0
    /\ last_scroll = "none"
    /\ sync = [i \in SyncIds |-> NoSync]
    /\ sv_samples = <<>>
    /\ options = <<>>
    /\ highlighted = <<>>
    /\ refreshed = FALSE
    /\ prev_focus = <<>>
    /\ NoProgress
    /\ NoRender
    /\ NoApp

\* sync_sample is called from SamplesView.set_highlighted, a watcher whose calls
\* the message pump of the widget runs one after the other: one call at a time
NextTV ==
    \/ \E s \in Samples : AppendEvent(s)
    \/ UserScroll
    \/ \E s \in Samples : SyncUpdate(1, s)
    \/ SyncUpdateDone(1)
    \/ \E s \in Samples : SyncNew(1, <<s>>)
    \/ SyncNew(1, <<>>)
    \/ SyncNewMount(1)
    \/ SyncNewDone(1)

SpecTV == InitTV /\ [][NextTV]_vars

\* sync_sample as a coroutine any caller may start: a second call may begin while
\* an earlier one is suspended at an await
NextTVOverlap ==
    \/ \E s \in Samples : AppendEvent(s)
    \/ UserScroll
    \/ \E i \in SyncIds, s \in Samples : SyncUpdate(i, s)
    \/ \E i \in SyncIds : SyncUpdateDone(i)
    \/ \E i \in SyncIds, s \in Samples : SyncNew(i, <<s>>)
    \/ \E i \in SyncIds : SyncNew(i, <<>>)
    \/ \E i \in SyncIds : SyncNewMount(i)
    \/ \E i \in SyncIds : SyncNewDone(i)

SpecTVOverlap == InitTV /\ [][NextTVOverlap]_vars

\* The Sample List View: samples start, run and end while the clock advances, the
\* display refreshes the list from the registry and the user moves the highlight.
NextSV ==
    \/ Tick
    \/ \E s \in Samples : NewActiveSample(s)
    \/ \E s \in Samples : EnterActiveSample(s)
    \/ \E s \in Samples : ExitActiveSample(s, "none")
    \/ init_active_samples
    \/ RefreshSamples
    \/ \E i \in 1..(NumSamples + 1) : UserHighlight(i)

SpecSV == Init /\ [][NextSV]_vars

\* The focus of the Sample List View and its history: samples start and end, the
\* display refreshes the list and the user moves the focus. Which samples are
\* listed does not depend on the clock, which stands still here.
NextFocus ==
    \/ \E s \in Samples : NewActiveSample(s)
    \/ \E s \in Samples : EnterActiveSample(s)
    \/ \E s \in Samples : ExitActiveSample(s, "none")
    \/ init_active_samples
    \/ RefreshSamples
    \/ \E i \in 1..NumSamples : UserRefocus(i)

SpecFocus == Init /\ [][NextFocus]_vars

\* A Progress object of either class, created with some total, receives calls of
\* update and complete in any order.
InitPG ==
    /\ InitViews
    /\ pg_impl \in ProgressImpls
    /\ pg_total \in 1..MaxTotal
    /\ pg_value = 0
    /\ pg_log = <<>>

NextPG ==
    \/ \E n \in 1..MaxAdvance : RichProgress_update(n)
    \/ RichProgress_complete
    \/ \E n \in 1..MaxAdvance : TaskProgress_update(n)
    \/ TaskProgress_complete

SpecPG == InitPG /\ [][NextPG]_vars

\* The task app: the worker of main runs and ends, the app captures prints, the
\* user may quit, and run_task_app hands the outcome to its caller.
NextApp ==
    \/ run_app
    \/ on_mount
    \/ \E text \in PrintTexts : on_print(text)
    \/ \E result \in Results : WorkerSucceeds(result)
    \/ \E error \in WorkerErrors : WorkerFails(error)
    \/ action_quit
    \/ on_worker_state_changed
    \/ run_task_app

SpecApp == Init /\ [][NextApp]_vars

\* render_event is called on events of every kind, again and again.
NextRender ==
    \/ \E e \in RenderPool : HandEvent(e)
    \/ CallRenderEvent

SpecRender == Init /\ [][NextRender]_vars

(* ======================= Active Sample Registry ======================= *)

\* C1: the registry never contains a sample whose exit action has run, and every
\* sample that entered and exited has completed set to a timestamp >= its started.
C1_ExitedSamplesAreRemovedAndStamped ==
    \A s \in Samples :
        pc[s] = "done" =>
            /\ ~Contains(registry, s)
            /\ completed[s] # <<>>
            /\ completed[s][1] >= started[s][1]

\* a scope whose guarded work raised has closed, later than it was opened, while
\* another sample is still registered
C1_Witness ==
    \E s, r \in Samples :
        /\ pc[s] = "done" /\ raised[s] = "WorkError"
        /\ completed[s] # <<>> /\ completed[s][1] > started[s][1]
        /\ pc[r] = "active" /\ Contains(registry, r)

\* C2: when the guarded work raises or is cancelled, the caller observes exactly
\* that error after the exit actions ran.
C2_ErrorPropagatesUnchanged ==
    \A s \in Samples :
        (pc[s] = "done" /\ raised[s] # "none") =>
            /\ completed[s] # <<>>
            /\ ~Contains(registry, s)
            /\ outcome[s] = raised[s]

\* C3: no read of the registry observes a sample that is still in the registry
\* with completed already set.
C3_NoCompletedSampleInRegistry ==
    \A i \in 1..Len(registry) : completed[registry[i]] = <<>>

\* a reader holds a non-empty result of active_samples() and a scope has closed since
C3_Witness ==
    /\ returned # <<>> /\ atCall # <<>>
    /\ \E s \in Samples : pc[s] = "done" /\ Contains(atCall, s)
    /\ registry # <<>>

\* C4: a list returned by list() is not changed by any enter, exit or init that
\* happens after the call.
C4_ListIsSnapshot ==
    returned # <<>> => Contents(returned[1]) = atCall

\* C5: once every owning task has terminated (normally, by raising, or by
\* cancellation) the registry is empty.
C5_NoStaleEntries ==
    (\A s \in Samples : pc[s] = "done") => registry = <<>>

\* every task has terminated, one of them by cancellation and one by raising
C5_Witness ==
    /\ \A s \in Samples : pc[s] = "done"
    /\ \E s \in Samples : raised[s] = "Cancelled"
    /\ \E s \in Samples : raised[s] = "WorkError"

\* C6: completed is unset while the sample is executing, and executionTime is
\* (completed if completed is set, else the current time) minus started.
C6_ExecutionTime ==
    \A s \in Samples :
        started[s] # <<>> =>
            /\ pc[s] \in {"created", "active"} => completed[s] = <<>>
            /\ execution_time(s) =
                   (IF completed[s] # <<>> THEN completed[s][1] ELSE now) - started[s][1]

\* C24: when init() has been called while the scope of a sample is open, closing
\* the scope stamps completed, raises no error of its own and leaves the registry
\* without the sample.
C24_ExitAfterInitIsClean ==
    [][\A s \in Samples :
          (pc[s] = "active" /\ ~Contains(registry, s) /\ pc'[s] = "done") =>
              /\ completed'[s] # <<>>
              /\ outcome'[s] = raised'[s]
              /\ ~Contains(registry', s)]_vars

(* ========================== Transcript View =========================== *)

\* the fragments a sequence of mounted widgets shows: for each title rule, the
\* title and the text of the widget below it
RECURSIVE FragmentsOf(_)
FragmentsOf(widgets) ==
    IF widgets = <<>> THEN <<>>
    ELSE IF Head(widgets).type = "Rule" /\ Len(widgets) >= 2
         THEN <<<<Head(widgets).text, widgets[2].text>>>> \o FragmentsOf(Tail(widgets))
         ELSE FragmentsOf(Tail(widgets))

\* the event renders to a display with non-empty content
RendersContent(e) ==
    /\ render_event(e) # <<>>
    /\ render_event(e)[1].content # <<>>
    /\ render_event(e)[1].content[1].text # <<>>

\* title and content text of the events of a sequence that render content, in order
RECURSIVE ContentFragments(_)
ContentFragments(events) ==
    IF events = <<>> THEN <<>>
    ELSE (IF RendersContent(Head(events))
          THEN <<<<render_event(Head(events))[1].title,
                   render_event(Head(events))[1].content[1].text>>>>
          ELSE <<>>)
         \o ContentFragments(Tail(events))

IsPrefix(a, b) == Len(a) <= Len(b) /\ SubSeq(b, 1, Len(a)) = a

\* the steps of a sync_sample call
UpdateStep(i) == sync[i].pc = "idle" /\ sync'[i].pc = "mount_update"
UpdateDoneStep(i) == sync[i].pc = "mount_update" /\ sync'[i].pc = "idle"
NewStep(i) == sync[i].pc = "idle" /\ sync'[i].pc = "remove"
NewMountStep(i) == sync[i].pc = "remove" /\ sync'[i].pc = "mount_new"
NewNoneStep(i) == sync[i].pc = "remove" /\ sync'[i].pc = "idle"
NewDoneStep(i) == sync[i].pc = "mount_new" /\ sync'[i].pc = "idle"

\* C7 as stated: an incremental resync of a transcript grown from N to N+k events
\* appends exactly k fragments.
C7_AppendsExactlyK ==
    [][\A i \in SyncIds :
          UpdateStep(i) =>
              Len(FragmentsOf(children')) =
                  Len(FragmentsOf(children))
                      + (Len(transcript[tv_sample[1]]) - Len(tv_events))]_vars

\* C7, amended: an incremental resync appends the fragments of exactly those of the
\* k new events that render non-empty content, in transcript order, below the
\* fragments already shown, which it leaves as they are; it records the k new
\* events and renders none of the first N again.
C7_AppendsNewContentFragments ==
    [][\A i \in SyncIds :
          UpdateStep(i) =>
              /\ IsPrefix(children, children')
              /\ FragmentsOf(children') =
                     FragmentsOf(children)
                         \o ContentFragments(
                                SubSeq(transcript[tv_sample[1]], Len(tv_events) + 1,
                                       Len(transcript[tv_sample[1]])))
              /\ tv_events' = tv_events \o sync'[i].append_events
              /\ IsPrefix(tv_events, transcript[tv_sample[1]])
                     => tv_events' = transcript[tv_sample[1]]
              /\ tv_sample' = tv_sample]_vars

\* an incremental resync has appended two events to one already shown, one that
\* renders content and one that does not
C7_Witness ==
    \E i \in SyncIds :
        /\ sync[i].pc = "mount_update"
        /\ Len(sync[i].append_events) = 2
        /\ Len(tv_events) = 3
        /\ Len(FragmentsOf(children)) = 2
        /\ \E e \in Range(sync[i].append_events) : RendersContent(e)
        /\ \E e \in Range(sync[i].append_events) : ~RendersContent(e)

\* C8 as stated: a full resync replaces the fragments with fragments for every
\* event currently in the new sample's transcript.
C8_FragmentForEveryEvent ==
    [][\A i \in SyncIds :
          NewMountStep(i) =>
              Len(FragmentsOf(children')) = Len(transcript[sync[i].sample[1]])]_vars

\* C8, amended: a sync with a sample other than the focused one, or with none,
\* records the new focus and discards all mounted widgets; it then mounts the
\* fragments of exactly those events currently in the new sample's transcript that
\* render non-empty content (none when unfocused) and records these events as
\* shown; with a sample it then jumps the scroll to the bottom without animation,
\* and with none the emptied view is at its bottom.
C8_FullResync ==
    [][\A i \in SyncIds :
          /\ NewStep(i) =>
                 /\ tv_sample' = sync'[i].sample
                 /\ ~SameSample(sync'[i].sample)
                 /\ children' = <<>>
          /\ NewMountStep(i) =>
                 /\ FragmentsOf(children') =
                        FragmentsOf(children)
                            \o ContentFragments(transcript[sync[i].sample[1]])
                 /\ children = <<>>
                 /\ tv_events' = transcript[sync[i].sample[1]]
          /\ NewNoneStep(i) =>
                 /\ sync[i].sample = <<>>
                 /\ children' = <<>>
                 /\ scroll_y' = MaxScrollY(children')
                 /\ tv_events' = <<>>
          /\ NewDoneStep(i) =>
                 /\ children' = children
                 /\ scroll_y' = MaxScrollY(children')
                 /\ last_scroll' = "jump"]_vars

\* a full resync from one sample to another has finished: the view shows the new
\* sample's transcript, which holds an event that renders no content and more
\* rows than the view has, and has jumped to the bottom
C8_Witness ==
    /\ \A i \in SyncIds : sync[i].pc = "idle"
    /\ tv_sample # <<>>
    /\ tv_events = transcript[tv_sample[1]]
    /\ \E e \in Range(tv_events) : ~RendersContent(e)
    /\ FragmentsOf(children) # <<>>
    /\ last_scroll = "jump"
    /\ scroll_y = max_scroll_y /\ scroll_y > 0
    /\ \E s \in Samples : s # tv_sample[1] /\ transcript[s] # <<>>

\* C9: on an incremental resync, if the view was within 3 rows of the bottom
\* before the append it is scrolled to the new bottom after it; otherwise the
\* scroll offset is left unchanged.
C9_ScrollFollowsBottom ==
    [][\A i \in SyncIds :
          /\ UpdateStep(i) =>
                 /\ sync'[i].scrolled_to_bottom =
                        (scroll_y - MaxScrollY(children) \in -3..3)
                 /\ scroll_y' = scroll_y
          /\ UpdateDoneStep(i) =>
                 scroll_y' = IF sync[i].scrolled_to_bottom
                             THEN MaxScrollY(children')
                             ELSE scroll_y]_vars

\* an incremental resync has appended a fragment while the view was exactly 3 rows
\* above the bottom
C9_Witness ==
    \E i \in SyncIds :
        /\ sync[i].pc = "mount_update"
        /\ sync[i].scrolled_to_bottom
        /\ \E e \in Range(sync[i].append_events) : RendersContent(e)
        /\ MaxScrollY(children) - scroll_y = 6

\* title and body text of the displays of those events that render to a display,
\* in order; the body of a title-only display is empty
RECURSIVE DisplayFragments(_)
DisplayFragments(events) ==
    IF events = <<>> THEN <<>>
    ELSE (IF render_event(Head(events)) # <<>>
          THEN <<<<render_event(Head(events))[1].title,
                   IF render_event(Head(events))[1].content # <<>>
                   THEN render_event(Head(events))[1].content[1].text
                   ELSE <<>> >>>>
          ELSE <<>>)
         \o DisplayFragments(Tail(events))

\* no sync_sample call is in flight
NoSyncInFlight == \A i \in SyncIds : sync[i].pc = "idle"

\* C22: whenever every sync call made so far has completed, the recorded event
\* list is a prefix of the focused sample's transcript (empty when nothing is
\* focused) and the mounted fragments are the renderings of that prefix, in
\* order, none missing and none twice.
C22_ViewMirrorsPrefix ==
    NoSyncInFlight =>
        /\ tv_sample = <<>> => tv_events = <<>>
        /\ tv_sample # <<>> => IsPrefix(tv_events, transcript[tv_sample[1]])
        /\ FragmentsOf(children) = DisplayFragments(tv_events)

\* C23: when sync_sample calls have overlapped and all have finished, the view
\* shows the events of the focused sample's transcript that render content at
\* most once each and in transcript order, and the recorded event list matches
\* the mounted fragments.
C23_OverlapIsSafe ==
    NoSyncInFlight =>
        /\ tv_sample # <<>> => IsPrefix(tv_events, transcript[tv_sample[1]])
        /\ FragmentsOf(children) = ContentFragments(tv_events)

(* ========================== Sample List View ========================== *)

\* a step that is a call of set_samples
RefreshStep == refreshed' # refreshed

\* C10: for every refresh, the sample that was focused before it is still in the
\* list and still focused after it, at its position in the sorted list; when it is
\* absent from the new snapshot its last-known object is carried forward.
C10_FocusPreserved ==
    [][(RefreshStep /\ highlighted # <<>>) =>
          /\ highlighted' # <<>>
          /\ highlighted'[1] \in 1..Len(sv_samples')
          /\ sv_samples'[highlighted'[1]] = sv_samples[highlighted[1]]
          /\ options'[highlighted'[1]] = options[highlighted[1]]
          /\ Cardinality({i \in 1..Len(sv_samples') :
                             sv_samples'[i] = sv_samples[highlighted[1]]}) = 1
          /\ Range(sv_samples') = Range(registry) \cup {sv_samples[highlighted[1]]}]_vars

\* the focused sample has left the registry and a refresh since then has carried it
\* forward: it is listed and focused next to a sample constructed after it completed
C10_Witness ==
    /\ highlighted # <<>>
    /\ pc[sv_samples[highlighted[1]]] = "done"
    /\ ~Contains(registry, sv_samples[highlighted[1]])
    /\ \E i \in 1..Len(sv_samples) :
           started[sv_samples[i]][1] > completed[sv_samples[highlighted[1]]][1]

\* C11 (as stated): a sample that was focused before the present one and has
\* meanwhile left the registry is still shown in the list, so the focus can go
\* back to it.
C11_StaleFocusStillShown ==
    (prev_focus # <<>> /\ ~Contains(registry, prev_focus[1])) =>
        Contains(options, prev_focus[1])

\* C11 (amended): a sample that has left the registry is carried forward only
\* while it is focused: a refresh keeps a listed sample that is no longer in the
\* registry if and only if it is the focused one.
C11_StickyWhileFocused ==
    [][RefreshStep =>
          \A i \in 1..Len(options) :
              ~Contains(registry, options[i]) =>
                  (Contains(options', options[i]) <=> highlighted = <<i>>)]_vars

\* the focus went from one sample to another that has left the registry: the
\* refresh since then has kept the focused one and dropped the one focused before
C11_Witness ==
    /\ highlighted # <<>>
    /\ prev_focus # <<>>
    /\ prev_focus[1] # options[highlighted[1]]
    /\ pc[options[highlighted[1]]] = "done"
    /\ ~Contains(registry, options[highlighted[1]])
    /\ pc[prev_focus[1]] = "done"
    /\ ~Contains(options, prev_focus[1])

\* C12: when no sample is focused before a refresh and the refreshed list is not
\* empty, the top entry of the sorted list is focused after it.
C12_DefaultFocusIsTop ==
    [][(RefreshStep /\ highlighted = <<>> /\ sv_samples' # <<>>) =>
          highlighted' = <<1>>]_vars

\* the top entry of a full list is focused, and it is not the first sample of the
\* registry: the sort has put a longer-running sample on top
C12_Witness ==
    /\ highlighted = <<1>>
    /\ Len(options) = NumSamples
    /\ Len(registry) = NumSamples
    /\ options[1] # registry[1]
    /\ execution_time(options[1]) > execution_time(registry[1])

\* executionTime as the specification defines it
executionTime(s) ==
    (IF completed[s] # <<>> THEN completed[s][1] ELSE now) - started[s][1]

\* C13: after every refresh the list is ordered by executionTime, longest first,
\* the time of a running sample being taken from the clock at the refresh.
C13_SortedByExecutionTime ==
    [][RefreshStep =>
          \A i \in 1..(Len(sv_samples') - 1) :
              executionTime(sv_samples'[i]) >= executionTime(sv_samples'[i + 1])]_vars

OnlyUpdates(log) == \A i \in 1..Len(log) : log[i].op = "update"

\* the sum of the n of the update calls
RECURSIVE StepSum(_)
StepSum(log) == IF log = <<>> THEN 0 ELSE Head(log).n + StepSum(Tail(log))

\* the calls so far were pg_total calls of update(1)
TotalUnitUpdates == pg_log = [i \in 1..pg_total |-> UpdateCall(1)]

\* C15 (as stated): update(n) advances the displayed value by n/total of the
\* fixed maximum of the bar, so that after total calls of update(1) the displayed
\* value is the fixed maximum.
C15_UpdatesReachMaximum ==
    /\ OnlyUpdates(pg_log) =>
           pg_value * pg_total = StepSum(pg_log) * BarTotal(pg_impl, pg_total)
    /\ TotalUnitUpdates => pg_value = BarTotal(pg_impl, pg_total)

\* C15 (amended): RichProgress.update(n) advances the displayed value by
\* n/total * 100, so that after total calls of update(1) it is 100 of the 102
\* units of the bar; TaskProgress.update(n) advances its bar, whose total is
\* total, by n.
C15_UpdatesReachHundred ==
    /\ (pg_impl = "RichProgress" /\ OnlyUpdates(pg_log)) =>
           pg_value = StepSum(pg_log) * 100
    /\ (pg_impl = "RichProgress" /\ TotalUnitUpdates) =>
           /\ pg_value = 100 * pg_total
           /\ BarTotal(pg_impl, pg_total) - pg_value = (PROGRESS_TOTAL - 100) * pg_total
    /\ (pg_impl = "TaskProgress" /\ OnlyUpdates(pg_log)) => pg_value = StepSum(pg_log)
    /\ (pg_impl = "TaskProgress" /\ TotalUnitUpdates) =>
           pg_value = BarTotal(pg_impl, pg_total)

\* a RichProgress made with a total of at least 2 has received total calls of update(1)
C15_Witness ==
    /\ pg_impl = "RichProgress"
    /\ pg_total >= 2
    /\ TotalUnitUpdates

\* C16: after complete() the displayed value is the fixed maximum of the bar,
\* whatever calls of update came before.
C16_CompleteSnapsToMaximum ==
    (pg_log # <<>> /\ pg_log[Len(pg_log)].op = "complete") =>
        pg_value = BarTotal(pg_impl, pg_total)

\* complete() was called on a RichProgress whose updates had run past its total
C16_Witness ==
    /\ pg_impl = "RichProgress"
    /\ Len(pg_log) >= 3
    /\ pg_log[Len(pg_log)].op = "complete"
    /\ OnlyUpdates(SubSeq(pg_log, 1, Len(pg_log) - 1))
    /\ StepSum(pg_log) > pg_total

\* C21: after any calls of update(n) and complete() the value of the bar lies
\* between 0 and its fixed maximum.
C21_ValueBounded ==
    /\ 0 <= pg_value
    /\ pg_value <= BarTotal(pg_impl, pg_total)

(* =========================== Event Renderer =========================== *)

\* a step that is a call of render_event
RenderStep == rendered' # rendered

RegisteredKinds ==
    {"SampleInitEvent", "StepEvent", "ModelEvent", "ToolEvent", "SubtaskEvent",
     "ScoreEvent", "InputEvent", "ApprovalEvent", "InfoEvent", "LoggerEvent",
     "ErrorEvent"}

\* the first word of the title each kind is rendered with
TitleHead(event) ==
    CASE event.kind = "SampleInitEvent" -> "sample init"
      [] event.kind = "StepEvent" -> IF event.type # "" THEN event.type ELSE "step"
      [] event.kind = "ModelEvent" -> "model: "
      [] event.kind = "ToolEvent" -> "tool call"
      [] event.kind = "SubtaskEvent" -> "subtask: "
      [] event.kind = "ScoreEvent" -> "score"
      [] event.kind = "InputEvent" -> "input"
      [] event.kind = "ApprovalEvent" -> "approval"
      [] event.kind = "InfoEvent" -> "info"
      [] event.kind = "LoggerEvent" -> "logger"
      [] event.kind = "ErrorEvent" -> "error"

\* C18: render is total and dispatches by kind: an event of each of the eleven
\* registered kinds is rendered by the renderer registered for its kind, an event
\* of any other kind renders to absent, and such an event in a transcript does not
\* keep the events around it from being mounted.
C18_RenderIsTotalByKind ==
    \A i \in 1..Len(rendered) :
        LET call == rendered[i] IN
        IF call.event.kind \in RegisteredKinds
        THEN /\ \E k \in 1..Len(_renderers) :
                    _renderers[k] = <<call.event.kind, call.renderer>>
             /\ call.display # <<>>
             /\ Head(call.display[1].title) = TitleHead(call.event)
        ELSE /\ call.renderer = ""
             /\ call.display = <<>>
             /\ \A e \in EventPool("x") :
                    /\ _widgets_for_events(<<call.event, e>>) = _widgets_for_events(<<e>>)
                    /\ _widgets_for_events(<<e, call.event>>) = _widgets_for_events(<<e>>)

\* render_event was called on an event without a renderer and on an Error event,
\* the last entry of the renderer table
C18_Witness ==
    /\ \E i \in 1..Len(rendered) :
           rendered[i].event.kind \notin RegisteredKinds /\ rendered[i].display = <<>>
    /\ \E i \in 1..Len(rendered) :
           rendered[i].event.kind = "ErrorEvent" /\ rendered[i].display # <<>>

\* the titles of the title rules among mounted widgets, top to bottom
TitlesOf(widgets) ==
    LET rules == SelectSeq(widgets, LAMBDA w : w.type = "Rule")
    IN  [i \in 1..Len(rules) |-> rules[i].text]

\* the titles of the displays of those events that render to a display, in order
RECURSIVE DisplayTitles(_)
DisplayTitles(events) ==
    IF events = <<>> THEN <<>>
    ELSE (IF render_event(Head(events)) # <<>>
          THEN <<render_event(Head(events))[1].title>>
          ELSE <<>>)
         \o DisplayTitles(Tail(events))

\* C19: an event is left out of the display only when it is of an unknown kind
\* or renders no title: a Step event renders to the title
\* "{step-type or 'step'}: {name}" with no body, and this title-only fragment is
\* shown in the Transcript View.
C19_TitleOnlyFragmentsShown ==
    (tv_sample # <<>> /\ \A i \in SyncIds : sync[i].pc = "idle") =>
        /\ \A k \in 1..Len(tv_events) :
               tv_events[k].kind = "StepEvent" =>
                   render_event(tv_events[k]) =
                       <<EventDisplay(
                           <<IF tv_events[k].type # "" THEN tv_events[k].type ELSE "step",
                             ": ", tv_events[k].name[1]>>, <<>>)>>
        /\ TitlesOf(children) = DisplayTitles(tv_events)

\* C20: a Logger event renders to the title "logger" and the body
\* "{LEVEL} (${name}): {message}", the level in upper case and the " (${name})"
\* part left out when the name is absent or empty: level INFO, an empty name and
\* the message "started" give the body "INFO: started".
C20_LoggerBody ==
    \A i \in 1..Len(rendered) :
        LET call == rendered[i]
            event == call.event
            named == event.name # <<>> /\ event.name[1] # ""
            LEVEL == CASE event.level = "info" -> "INFO"
                       [] event.level = "warning" -> "WARNING"
        IN  event.kind = "LoggerEvent" =>
                /\ call.display # <<>>
                /\ call.display[1].title = <<"logger">>
                /\ call.display[1].content # <<>>
                /\ call.display[1].content[1].type = "str"
                /\ call.display[1].content[1].text =
                       IF named
                       THEN <<LEVEL, " ($", event.name[1], ")", ": ">> \o event.text
                       ELSE <<LEVEL, ": ">> \o event.text
                /\ (event.level = "info" /\ event.name = <<"">>
                        /\ event.text = <<"started">>) =>
                       call.display[1].content[1].text = <<"INFO", ": ", "started">>

\* render_event was called on the Logger event of the example and on one with a name
C20_Witness ==
    /\ \E i \in 1..Len(rendered) :
           /\ rendered[i].event.kind = "LoggerEvent"
           /\ rendered[i].event.name = <<"">>
           /\ rendered[i].event.text = <<"started">>
           /\ rendered[i].display[1].content[1].text = <<"INFO", ": ", "started">>
    /\ \E i \in 1..Len(rendered) :
           /\ rendered[i].event.kind = "LoggerEvent"
           /\ rendered[i].event.name = <<"inspect">>

(* ============================== Task App ============================== *)

\* C25: run_task_app returns the value of the main coroutine whenever the worker
\* ends in SUCCESS, whatever the value; it raises the worker's error when the
\* worker ends in ERROR and a CancelledError when it was cancelled; and the
\* RuntimeError "No application result available" is raised only when the worker
\* produced neither a result nor an error.
C25_AppResult ==
    app_pc = "done" =>
        /\ worker = "SUCCESS" => ran.kind = "returned" /\ ran.value = worker_result
        /\ worker = "ERROR" => ran.kind = "raised" /\ ran.value = worker_error
        /\ worker = "CANCELLED" => ran.kind = "raised" /\ ran.value = "CancelledError"
        /\ (ran.kind = "raised" /\ ran.value = "RuntimeError") =>
               worker \notin {"SUCCESS", "ERROR"}

====
